---- MODULE Spec2Model ----
(***************************************************************************)
(* Model of src/src/commands.rs: the Command builder (run, run_capture),   *)
(* the Build builder (run), the ExitError classification and sudo().       *)
(*                                                                         *)
(* Text (OsString / String) is a sequence of indivisible pieces, so that   *)
(* starts_with and contains are computed, position by position, as the     *)
(* standard library computes them on characters.  A token of an argument   *)
(* vector is one such text; an argument vector is a sequence of tokens.    *)
(***************************************************************************)
EXTENDS Integers, Sequences, FiniteSets

VARIABLES
    platform,   \* cfg!(target_os): "macos" or "other", fixed per build
    cmd,        \* the live Command builder, or Nil
    bld,        \* the live Build builder, or Nil
    hist,       \* what the caller handed to the live builder, in call order
    last        \* the last operation: composed Exec, spawns, result

vars == <<platform, cmd, bld, hist, last>>

-----------------------------------------------------------------------------
(* Bounds of the model *)

MaxArgs == 2    \* longest argument list a builder accumulates
MaxBatch == 2   \* longest iterator handed to args / extra_args
MaxWrap == 2    \* how many times one command line is passed through sudo

-----------------------------------------------------------------------------
(* Text *)

Str(s) == <<s>>

StartsWith(s, p) ==
    /\ Len(s) >= Len(p)
    /\ \A i \in 1..Len(p) : s[i] = p[i]

Contains(s, p) ==
    \E k \in 0..Len(s) :
        /\ k + Len(p) <= Len(s)
        /\ \A i \in 1..Len(p) : s[k + i] = p[i]

SudoBin == Str("sudo")
SetHome == Str("--set-home")
PreserveEnvNeedle == <<"--preserve", "-env">>          \* "--preserve-env"
PreserveEnvPath == <<"--preserve", "-env", "=PATH">>   \* "--preserve-env=PATH"
Env == Str("env")
StorePrefix == <<"/nix", "/store">>                    \* "/nix/store"

None == <<>>
Some(x) == <<x>>

Nil == [ty |-> "nil"]

-----------------------------------------------------------------------------
(* Inputs *)

Platforms == {"macos", "other"}
Programs == {Str("sh"), SudoBin}
ArgTokens == {Str("a"), Str("b")}
Messages == {Str("Building")}

RECURSIVE SeqsUpTo(_, _)
SeqsUpTo(S, n) ==
    IF n = 0 THEN {<<>>}
    ELSE LET shorter == SeqsUpTo(S, n - 1)
         IN shorter \cup {Append(s, x) : s \in shorter, x \in S}

Batches == SeqsUpTo(ArgTokens, MaxBatch)

References ==
    { <<"/nix", "/store", "/abc-pkg">>,
      <<"/nix", "/var">>,
      <<"/nix">>,
      <<"github:", "org/repo">>,
      <<".", "/nix", "/store">> }

Installables ==
    {[variant |-> "Flake", reference |-> r, attribute |-> Str("default")] :
        r \in References}
    \cup {[variant |-> "Store", reference |-> <<"/nix", "/store", "/abc-pkg">>,
           attribute |-> <<>>],
          [variant |-> "File", reference |-> <<"/nix", "/store", "/f.nix">>,
           attribute |-> Str("default")]}

(* The installable's own translation to arguments (crate::installable). *)
ToArgs(installable) ==
    CASE installable.variant = "Flake" ->
            <<installable.reference \o <<"#">> \o installable.attribute>>
      [] installable.variant = "File" ->
            <<Str("--file"), installable.reference, installable.attribute>>
      [] installable.variant = "Expression" ->
            <<Str("--expr"), installable.reference, installable.attribute>>
      [] OTHER -> <<installable.reference>>

-----------------------------------------------------------------------------
(* The environment: what a spawned child, or the failure to spawn, yields *)

ExitStatuses ==
    { [kind |-> "Exited", code |-> 0],
      [kind |-> "Exited", code |-> 1],
      [kind |-> "Signaled", code |-> 9],
      [kind |-> "Other", code |-> 0],
      [kind |-> "Undetermined", code |-> 0] }

NoStatus == [kind |-> "none", code |-> 0]

HelpOutputs ==
    { <<"usage">>,
      <<"usage", "--preserve", "-env", "=list">>,
      <<"--preserve", "-env">>,
      <<"--preserve", "usage", "-env">> }

CapturedTexts == {<<>>, <<"hello", "\n">>}

\* ran: join / capture was called.  spawned: the OS created the child.
\* io: the call returned Ok, the child awaited (and its pipe read) to the end.
NotRun ==
    [ran |-> FALSE, spawned |-> FALSE, io |-> FALSE, status |-> NoStatus,
     out |-> <<>>]
Outcomes(statuses, texts) ==
    {[ran |-> TRUE, spawned |-> b, io |-> FALSE, status |-> NoStatus,
      out |-> <<>>] : b \in BOOLEAN}
    \cup {[ran |-> TRUE, spawned |-> TRUE, io |-> TRUE, status |-> s, out |-> t] :
            s \in statuses, t \in texts}

ProbeOutcomes ==
    Outcomes({[kind |-> "Exited", code |-> 0], [kind |-> "Exited", code |-> 1]},
             HelpOutputs)
JoinOutcomes == Outcomes(ExitStatuses, {<<>>})
CaptureOutcomes == Outcomes(ExitStatuses, CapturedTexts)

-----------------------------------------------------------------------------
(* subprocess::Exec as the code uses it *)

ExecCmd(command) == [argv |-> <<command>>, stdout |-> "None", stderr |-> "None"]
ExecArg(e, a) == [e EXCEPT !.argv = Append(@, a)]

RECURSIVE ExecArgs(_, _)
ExecArgs(e, as) ==
    IF as = <<>> THEN e ELSE ExecArgs(ExecArg(e, Head(as)), Tail(as))

ExecStdout(e, r) == [e EXCEPT !.stdout = r]
ExecStderr(e, r) == [e EXCEPT !.stderr = r]

NoExec == [argv |-> <<>>, stdout |-> "None", stderr |-> "None"]

\* one spawn asked of the OS: what was to run, how it was awaited, and whether
\* the child came to be
Spawn(e, via, outcome) ==
    [argv |-> e.argv, stdout |-> e.stdout, stderr |-> e.stderr, via |-> via,
     started |-> outcome.spawned]

-----------------------------------------------------------------------------
(* Results *)

NoErr == [kind |-> "none", status |-> NoStatus, context |-> None]
OsError(context) == [kind |-> "os", status |-> NoStatus, context |-> context]
ExitError(status) == [kind |-> "ExitError", status |-> status, context |-> None]

Ok(value) == [tag |-> "Ok", value |-> value, err |-> NoErr]
Err(e) == [tag |-> "Err", value |-> None, err |-> e]
NoResult == [tag |-> "none", value |-> None, err |-> NoErr]

-----------------------------------------------------------------------------
(* sudo() *)

ProbeExec ==
    ExecStdout(ExecStderr(ExecArgs(ExecCmd(SudoBin), <<Str("--help")>>), "None"),
               "Pipe")

HasPreserveEnv_Mutant(probe) == probe.io

\* capture().ok().filter(|c| c.stdout_str().contains("--preserve-env")).is_some()
HasPreserveEnv(probe) == probe.io /\ Contains(probe.out, PreserveEnvNeedle)

\* a resolver that leaves an already elevated program alone
sudo_Mutant(command, os, probe) ==
    LET c == IF os = "macos"
             THEN ExecArgs(ExecCmd(SudoBin),
                           IF HasPreserveEnv(probe)
                           THEN <<SetHome, PreserveEnvPath, Env>>
                           ELSE <<SetHome>>)
             ELSE ExecCmd(SudoBin)
    IN [exec |-> IF command = SudoBin THEN c ELSE ExecArg(c, command),
        spawns |-> IF os = "macos" THEN <<Spawn(ProbeExec, "capture", probe)>> ELSE <<>>]

sudo(command, os, probe) ==
    LET c == IF os = "macos"
             THEN ExecArgs(ExecCmd(SudoBin),
                           IF HasPreserveEnv(probe)
                           THEN <<SetHome, PreserveEnvPath, Env>>
                           ELSE <<SetHome>>)
             ELSE ExecCmd(SudoBin)
    IN [exec |-> ExecArg(c, command),
        spawns |-> IF os = "macos" THEN <<Spawn(ProbeExec, "capture", probe)>> ELSE <<>>]

\* the probe's outcome is an input only where the probe is run
ProbeChoices(os, elevated) ==
    IF elevated /\ os = "macos" THEN ProbeOutcomes ELSE {NotRun}

-----------------------------------------------------------------------------
(* Command *)

Command_new(command) ==
    [ty |-> "Command", dry |-> FALSE, message |-> None, command |-> command,
     args |-> <<>>, elevate |-> FALSE]

Command_elevate(self, elevate) == [self EXCEPT !.elevate = elevate]

Command_dry(self, dry) == [self EXCEPT !.dry = dry]

\* a push that skips an argument the list already holds
Command_arg_Mutant(self, arg) ==
    IF \E i \in 1..Len(self.args) : self.args[i] = arg
    THEN self
    ELSE [self EXCEPT !.args = Append(@, arg)]

Command_arg(self, arg) == [self EXCEPT !.args = Append(@, arg)]

RECURSIVE Command_args(_, _)
Command_args(self, args) ==
    IF args = <<>> THEN self
    ELSE Command_args([self EXCEPT !.args = Append(@, Head(args))], Tail(args))

Command_message(self, message) == [self EXCEPT !.message = Some(message)]

\* run: the composed command, with the spawns composing it already made
Command_run_cmd(self, os, probe) ==
    LET c == IF self.elevate
             THEN sudo(self.command, os, probe)
             ELSE [exec |-> ExecCmd(self.command), spawns |-> <<>>]
    IN [exec |-> ExecStdout(ExecStderr(ExecArgs(c.exec, self.args), "None"), "None"),
        spawns |-> c.spawns]

Command_run_spawns(self, composed, joined) ==
    IF ~self.dry
    THEN Append(composed.spawns, Spawn(composed.exec, "join", joined))
    ELSE composed.spawns

\* a run that takes a child's failure for its own
Command_run_result_Mutant(self, joined) ==
    IF ~self.dry
    THEN IF joined.io /\ joined.status = [kind |-> "Exited", code |-> 0]
         THEN Ok(None)
         ELSE Err(OsError(self.message))
    ELSE Ok(None)

Command_run_result(self, joined) ==
    IF ~self.dry
    THEN IF self.message # None
         THEN IF joined.io THEN Ok(None) ELSE Err(OsError(self.message))
         ELSE IF joined.io THEN Ok(None) ELSE Err(OsError(None))
    ELSE Ok(None)

\* a capture that honours the elevate flag
Command_run_capture_cmd_Mutant(self) ==
    LET c == IF self.elevate
             THEN ExecArg(ExecCmd(SudoBin), self.command)
             ELSE ExecCmd(self.command)
    IN [exec |-> ExecStdout(ExecStderr(ExecArgs(c, self.args), "None"), "Pipe"),
        spawns |-> <<>>]

Command_run_capture_cmd(self) ==
    [exec |-> ExecStdout(ExecStderr(ExecArgs(ExecCmd(self.command), self.args),
                                    "None"), "Pipe"),
     spawns |-> <<>>]

Command_run_capture_spawns(self, composed, captured) ==
    IF ~self.dry
    THEN Append(composed.spawns, Spawn(composed.exec, "capture", captured))
    ELSE composed.spawns

Command_run_capture_result(self, captured) ==
    IF ~self.dry
    THEN IF captured.io THEN Ok(Some(captured.out)) ELSE Err(OsError(None))
    ELSE Ok(None)

-----------------------------------------------------------------------------
(* Build *)

Build_new(installable) ==
    [ty |-> "Build", message |-> None, installable |-> installable,
     extra_args |-> <<>>, nom |-> FALSE]

Build_message(self, message) == [self EXCEPT !.message = Some(message)]

\* a push that puts the new argument first
Build_extra_arg_Mutant(self, arg) == [self EXCEPT !.extra_args = <<arg>> \o @]

Build_extra_arg(self, arg) == [self EXCEPT !.extra_args = Append(@, arg)]

Build_nom(self, yes) == [self EXCEPT !.nom = yes]

RECURSIVE Build_extra_args(_, _)
Build_extra_args(self, args) ==
    IF args = <<>> THEN self
    ELSE Build_extra_args([self EXCEPT !.extra_args = Append(@, Head(args))],
                          Tail(args))

\* a guard that forgets the variant
Build_run_elevates_Mutant(self) ==
    StartsWith(self.installable.reference, StorePrefix)

\* Installable::Flake { ref reference, .. } if reference.starts_with("/nix/store")
Build_run_elevates(self) ==
    /\ self.installable.variant = "Flake"
    /\ StartsWith(self.installable.reference, StorePrefix)

Build_run_cmd(self, os, probe) ==
    LET installable_args == ToArgs(self.installable)
        bin == IF self.nom THEN Str("nom") ELSE Str("nix")
        c == IF Build_run_elevates(self)
             THEN sudo(bin, os, probe)
             ELSE [exec |-> ExecCmd(bin), spawns |-> <<>>]
        built == ExecArgs(ExecArgs(ExecArg(c.exec, Str("build")),
                                   installable_args),
                          self.extra_args)
    IN [exec |-> ExecStderr(ExecStdout(built, "None"), "Merge"),
        spawns |-> c.spawns]

\* a run that composes and logs the command and stops there
Build_run_spawns_Mutant(self, composed, joined) == composed.spawns

Build_run_spawns(self, composed, joined) ==
    Append(composed.spawns, Spawn(composed.exec, "join", joined))

\* a classification by exit code alone
Build_run_result_Mutant(joined) ==
    IF ~joined.io THEN Err(OsError(None))
    ELSE IF joined.status.code = 0 THEN Ok(None)
    ELSE Err(ExitError(joined.status))

\* match exit? { ExitStatus::Exited(0) => (), other => bail!(ExitError(other)) }
Build_run_result(joined) ==
    IF ~joined.io THEN Err(OsError(None))
    ELSE IF joined.status = [kind |-> "Exited", code |-> 0] THEN Ok(None)
    ELSE Err(ExitError(joined.status))

-----------------------------------------------------------------------------
(* State machine *)

NoLast ==
    [op |-> "none", input |-> <<>>, exec |-> NoExec, spawns |-> <<>>,
     probe |-> NotRun, outcome |-> NotRun, info |-> None, res |-> NoResult]

Did(op) == [NoLast EXCEPT !.op = op]

NoHist == [target |-> Nil, args |-> <<>>]

Init ==
    /\ platform \in Platforms
    /\ cmd = Nil
    /\ bld = Nil
    /\ hist = NoHist
    /\ last = NoLast

CommandNew(command) ==
    /\ cmd' = Command_new(command)
    /\ bld' = Nil
    /\ hist' = [target |-> command, args |-> <<>>]
    /\ last' = Did("Command::new")
    /\ UNCHANGED platform

CommandElevate(elevate) ==
    /\ cmd # Nil
    /\ cmd' = Command_elevate(cmd, elevate)
    /\ last' = Did("Command::elevate")
    /\ UNCHANGED <<platform, bld, hist>>

CommandDry(dry) ==
    /\ cmd # Nil
    /\ cmd' = Command_dry(cmd, dry)
    /\ last' = Did("Command::dry")
    /\ UNCHANGED <<platform, bld, hist>>

CommandArg(arg) ==
    /\ cmd # Nil
    /\ Len(hist.args) < MaxArgs
    /\ cmd' = Command_arg(cmd, arg)
    /\ hist' = [hist EXCEPT !.args = Append(@, arg)]
    /\ last' = Did("Command::arg")
    /\ UNCHANGED <<platform, bld>>

CommandArgs(args) ==
    /\ cmd # Nil
    /\ Len(hist.args) + Len(args) <= MaxArgs
    /\ cmd' = Command_args(cmd, args)
    /\ hist' = [hist EXCEPT !.args = @ \o args]
    /\ last' = Did("Command::args")
    /\ UNCHANGED <<platform, bld>>

CommandMessage(message) ==
    /\ cmd # Nil
    /\ cmd' = Command_message(cmd, message)
    /\ last' = Did("Command::message")
    /\ UNCHANGED <<platform, bld, hist>>

CommandRun ==
    /\ cmd # Nil
    /\ \E probe \in ProbeChoices(platform, cmd.elevate) :
       \E joined \in (IF cmd.dry THEN {NotRun} ELSE JoinOutcomes) :
          LET composed == Command_run_cmd(cmd, platform, probe)
          IN last' = [op |-> "Command::run", input |-> <<>>,
                      exec |-> composed.exec,
                      spawns |-> Command_run_spawns(cmd, composed, joined),
                      probe |-> probe, outcome |-> joined,
                      info |-> cmd.message,
                      res |-> Command_run_result(cmd, joined)]
    /\ UNCHANGED <<platform, cmd, bld, hist>>

CommandRunCapture ==
    /\ cmd # Nil
    /\ \E captured \in (IF cmd.dry THEN {NotRun} ELSE CaptureOutcomes) :
          LET composed == Command_run_capture_cmd(cmd)
          IN last' = [op |-> "Command::run_capture", input |-> <<>>,
                      exec |-> composed.exec,
                      spawns |-> Command_run_capture_spawns(cmd, composed, captured),
                      probe |-> NotRun, outcome |-> captured,
                      info |-> cmd.message,
                      res |-> Command_run_capture_result(cmd, captured)]
    /\ UNCHANGED <<platform, cmd, bld, hist>>

BuildNew(installable) ==
    /\ bld' = Build_new(installable)
    /\ cmd' = Nil
    /\ hist' = [target |-> installable, args |-> <<>>]
    /\ last' = Did("Build::new")
    /\ UNCHANGED platform

BuildMessage(message) ==
    /\ bld # Nil
    /\ bld' = Build_message(bld, message)
    /\ last' = Did("Build::message")
    /\ UNCHANGED <<platform, cmd, hist>>

BuildExtraArg(arg) ==
    /\ bld # Nil
    /\ Len(hist.args) < MaxArgs
    /\ bld' = Build_extra_arg(bld, arg)
    /\ hist' = [hist EXCEPT !.args = Append(@, arg)]
    /\ last' = Did("Build::extra_arg")
    /\ UNCHANGED <<platform, cmd>>

BuildNom(yes) ==
    /\ bld # Nil
    /\ bld' = Build_nom(bld, yes)
    /\ last' = Did("Build::nom")
    /\ UNCHANGED <<platform, cmd, hist>>

BuildExtraArgs(args) ==
    /\ bld # Nil
    /\ Len(hist.args) + Len(args) <= MaxArgs
    /\ bld' = Build_extra_args(bld, args)
    /\ hist' = [hist EXCEPT !.args = @ \o args]
    /\ last' = Did("Build::extra_args")
    /\ UNCHANGED <<platform, cmd>>

BuildRun ==
    /\ bld # Nil
    /\ \E probe \in ProbeChoices(platform, Build_run_elevates(bld)) :
       \E joined \in JoinOutcomes :
          LET composed == Build_run_cmd(bld, platform, probe)
          IN last' = [op |-> "Build::run", input |-> <<>>,
                      exec |-> composed.exec,
                      spawns |-> Build_run_spawns(bld, composed, joined),
                      probe |-> probe, outcome |-> joined,
                      info |-> bld.message,
                      res |-> Build_run_result(joined)]
    /\ UNCHANGED <<platform, cmd, bld, hist>>

RECURSIVE HelperCount(_)
HelperCount(argv) ==
    IF argv = <<>> THEN 0
    ELSE (IF Head(argv) = SudoBin THEN 1 ELSE 0) + HelperCount(Tail(argv))

\* a caller elevating a program: sudo(command)
SudoCall(command) ==
    /\ \E probe \in ProbeChoices(platform, TRUE) :
          LET s == sudo(command, platform, probe)
          IN last' = [op |-> "sudo", input |-> <<command>>, exec |-> s.exec,
                      spawns |-> s.spawns, probe |-> probe, outcome |-> NotRun,
                      info |-> None, res |-> NoResult]
    /\ UNCHANGED <<platform, cmd, bld, hist>>

\* a caller elevating a command line that sudo() composed: its program goes
\* through sudo() again and its arguments follow
SudoAgain ==
    /\ last.op \in {"sudo", "sudo again"}
    /\ HelperCount(last.exec.argv) < MaxWrap
    /\ \E probe \in ProbeChoices(platform, TRUE) :
          LET s == sudo(Head(last.exec.argv), platform, probe)
          IN last' = [op |-> "sudo again", input |-> last.exec.argv,
                      exec |-> ExecArgs(s.exec, Tail(last.exec.argv)),
                      spawns |-> s.spawns, probe |-> probe, outcome |-> NotRun,
                      info |-> None, res |-> NoResult]
    /\ UNCHANGED <<platform, cmd, bld, hist>>

Next ==
    \/ \E command \in Programs : CommandNew(command)
    \/ \E b \in BOOLEAN : CommandElevate(b)
    \/ \E b \in BOOLEAN : CommandDry(b)
    \/ \E a \in ArgTokens : CommandArg(a)
    \/ \E as \in Batches : CommandArgs(as)
    \/ \E m \in Messages : CommandMessage(m)
    \/ CommandRun
    \/ CommandRunCapture
    \/ \E i \in Installables : BuildNew(i)
    \/ \E m \in Messages : BuildMessage(m)
    \/ \E a \in ArgTokens : BuildExtraArg(a)
    \/ \E b \in BOOLEAN : BuildNom(b)
    \/ \E as \in Batches : BuildExtraArgs(as)
    \/ BuildRun

Spec == Init /\ [][Next]_vars

\* sudo() on its own: applied to a program, and to what it composed
SudoPrograms == {Str("sh"), Str("nix"), Str("nom"), Str("nixos-rebuild"), SudoBin}

SudoNext ==
    \/ \E command \in SudoPrograms : SudoCall(command)
    \/ SudoAgain

SudoSpec == Init /\ [][SudoNext]_vars

-----------------------------------------------------------------------------
(* Properties *)

\* what may stand before the program when a command is elevated
ElevationPrefixes ==
    { <<SudoBin>>,
      <<SudoBin, SetHome>>,
      <<SudoBin, SetHome, PreserveEnvPath, Env>> }

Argv == last.exec.argv

IsRun == last.op = "Command::run"
IsCapture == last.op = "Command::run_capture"
IsBuildRun == last.op = "Build::run"

\* the help text holds "--preserve-env"
Advertises(out) ==
    \E i \in 1..(Len(out) - 1) : out[i] = "--preserve" /\ out[i + 1] = "-env"

\* the spawn of the helper's --help probe
IsProbe(sp) ==
    /\ sp.argv = <<SudoBin, Str("--help")>>
    /\ sp.via = "capture"
    /\ sp.stdout = "Pipe"

\* C1: once the build subprocess has terminated, Build::run returns success
\* exactly for a clean exit with code 0, and for every other termination status
\* an error that is ExitError carrying that status unchanged.
C1_ExitClassification ==
    (IsBuildRun /\ last.outcome.io) =>
        IF last.outcome.status.kind = "Exited" /\ last.outcome.status.code = 0
        THEN last.res.tag = "Ok"
        ELSE /\ last.res.tag = "Err"
             /\ last.res.err.kind = "ExitError"
             /\ last.res.err.status = last.outcome.status

C1_Witness ==
    /\ IsBuildRun
    /\ last.outcome.io
    /\ last.outcome.status.kind = "Other"
    /\ last.outcome.status.code = 0
    /\ last.res.tag = "Err"

\* C2: the arguments Build::run passes after the selected binary (and after any
\* helper prefix) are "build", then the installable's arguments, then every
\* extra argument the caller supplied, in call order.
C2_BuildArgv ==
    IsBuildRun =>
        \E k \in 1..Len(Argv) :
            /\ Argv[k] = (IF bld.nom THEN Str("nom") ELSE Str("nix"))
            /\ SubSeq(Argv, 1, k - 1) \in ElevationPrefixes \cup {<<>>}
            /\ SubSeq(Argv, k + 1, Len(Argv))
                 = <<Str("build")>> \o ToArgs(hist.target) \o hist.args

C2_Witness ==
    /\ IsBuildRun
    /\ hist.args = <<Str("b"), Str("a")>>
    /\ Head(Argv) = SudoBin

\* C3: Build::run goes through the helper exactly when the installable is a
\* flake whose reference starts with "/nix/store"; otherwise the binary, nom
\* or nix, is the program spawned.  The frontend does not enter the decision.
C3_ElevationIff ==
    IsBuildRun =>
        LET ref == bld.installable.reference
            bin == IF bld.nom THEN Str("nom") ELSE Str("nix")
            store == /\ bld.installable.variant = "Flake"
                     /\ Len(ref) >= 2
                     /\ ref[1] = "/nix"
                     /\ ref[2] = "/store"
            spawned == last.spawns[Len(last.spawns)].argv
        IN /\ spawned = Argv
           /\ IF store
              THEN \E pre \in ElevationPrefixes :
                      SubSeq(Argv, 1, Len(pre) + 1) = pre \o <<bin>>
              ELSE Head(Argv) = bin /\ Len(last.spawns) = 1

C3_Witness ==
    /\ IsBuildRun
    /\ bld.nom
    /\ bld.installable.variant = "Flake"
    /\ Head(Argv) = SudoBin

\* C4: Command::run without dry-run succeeds whenever the child was spawned and
\* waited on, whatever its termination status; it fails only when the spawn or
\* the wait fails, and the error then has the configured message as context.
C4_RunSwallowsExit ==
    (IsRun /\ ~cmd.dry) =>
        IF last.outcome.io
        THEN last.res.tag = "Ok"
        ELSE /\ last.res.tag = "Err"
             /\ last.res.err.kind = "os"
             /\ last.res.err.context = cmd.message

C4_Witness ==
    /\ IsRun
    /\ ~cmd.dry
    /\ last.outcome.io
    /\ last.outcome.status.kind = "Signaled"
    /\ last.res.tag = "Ok"

\* C5: with dry set, Command::run and Command::run_capture spawn no subprocess
\* of any kind, the helper's probe included; run returns success and
\* run_capture returns None.
C5_DryRunSpawnsNothing ==
    ((IsRun \/ IsCapture) /\ cmd.dry) =>
        /\ \A i \in 1..Len(last.spawns) : ~last.spawns[i].started
        /\ last.res.tag = "Ok"
        /\ last.res.value = None

\* the builders the mutators of Build reach from self
BuildSettings(self) ==
    {[self EXCEPT !.message = m, !.nom = n, !.extra_args = x] :
        m \in {None} \cup {Some(t) : t \in Messages},
        n \in BOOLEAN,
        x \in SeqsUpTo(ArgTokens, MaxArgs)}

\* C6, as claimed: Build has a dry-run mode, a setting of the builder under
\* which Build::run spawns no process.
C6_BuildDryRun ==
    IsBuildRun =>
        \E self \in BuildSettings(bld) :
            \A probe \in ProbeChoices(platform, Build_run_elevates(self)) :
            \A joined \in JoinOutcomes :
                LET spawns == Build_run_spawns(
                                  self, Build_run_cmd(self, platform, probe), joined)
                IN \A i \in 1..Len(spawns) : ~spawns[i].started

\* C6, amended: Build has no dry-run mode.  Every Build::run asks the OS to
\* spawn the build tool, once, as the command it composed, with stdout
\* inherited and stderr merged; the only other spawn is the helper's probe.
C6_BuildAlwaysSpawns ==
    IsBuildRun =>
        LET n == Len(last.spawns)
        IN /\ n >= 1
           /\ last.spawns[n] = [argv |-> Argv, stdout |-> "None",
                                stderr |-> "Merge", via |-> "join",
                                started |-> last.outcome.spawned]
           /\ last.outcome.ran
           /\ \A i \in 1..(n - 1) : IsProbe(last.spawns[i])

C6_Witness ==
    /\ IsBuildRun
    /\ bld.message # None
    /\ bld.installable.variant = "Store"
    /\ Len(last.spawns) = 1
    /\ last.spawns[1].started

\* C7: sudo(command) is composed from the probe's outcome alone.  On macOS:
\* sudo --set-home --preserve-env=PATH env command when the probe succeeded and
\* its output holds "--preserve-env", sudo --set-home command otherwise.
\* Elsewhere: sudo command, and no probe.  The command is the last token and
\* later arguments follow it.
C7_SudoComposition ==
    /\ last.op = "sudo" =>
          LET command == last.input[1]
          IN IF platform = "macos"
             THEN /\ Len(last.spawns) = 1
                  /\ IsProbe(last.spawns[1])
                  /\ IF last.probe.io /\ Advertises(last.probe.out)
                     THEN Argv = <<SudoBin, SetHome, PreserveEnvPath, Env, command>>
                     ELSE Argv = <<SudoBin, SetHome, command>>
             ELSE /\ last.spawns = <<>>
                  /\ Argv = <<SudoBin, command>>
    /\ last.op = "sudo again" =>
          \E pre \in ElevationPrefixes : Argv = pre \o last.input

C7_Witness ==
    /\ last.op = "sudo"
    /\ platform = "macos"
    /\ last.probe.io
    /\ last.probe.status.code = 1
    /\ Advertises(last.probe.out)
    /\ Argv[4] = Env

\* C8, as claimed: a command wrapped twice holds the helper once.
C8_Idempotent ==
    last.op = "sudo again" => HelperCount(Argv) = 1

\* C8, amended: every wrapping adds one helper invocation in front of the
\* command line it is given, which it leaves as it is; a command wrapped twice
\* holds the helper twice, outermost and as the wrapped program.
C8_WrapsEachTime ==
    last.op = "sudo again" =>
        /\ Head(Argv) = SudoBin
        /\ HelperCount(Argv) = HelperCount(last.input) + 1
        /\ \E pre \in ElevationPrefixes : Argv = pre \o last.input

C8_Witness ==
    /\ last.op = "sudo again"
    /\ Head(last.input) = SudoBin
    /\ HelperCount(Argv) = 2

\* C9: run_capture spawns the configured program with the configured
\* arguments, never through the helper and with no probe, elevate or not; run
\* goes through the helper exactly when elevate is set.
C9_CaptureNeverElevates ==
    /\ IsCapture =>
          /\ Argv = <<cmd.command>> \o cmd.args
          /\ Len(last.spawns) = (IF cmd.dry THEN 0 ELSE 1)
          /\ \A i \in 1..Len(last.spawns) :
                last.spawns[i].argv = Argv /\ last.spawns[i].stdout = "Pipe"
    /\ IsRun =>
          /\ cmd.elevate <=>
                \E pre \in ElevationPrefixes :
                    Argv = pre \o <<cmd.command>> \o cmd.args
          /\ ~cmd.elevate => Argv = <<cmd.command>> \o cmd.args
          /\ platform = "macos" =>
                (cmd.elevate <=>
                    \E i \in 1..Len(last.spawns) : IsProbe(last.spawns[i]))

C9_Witness ==
    /\ IsCapture
    /\ cmd.elevate
    /\ ~cmd.dry
    /\ cmd.args # <<>>
    /\ last.outcome.io

\* C10: the command run and run_capture compose is the program given to new
\* followed by the arguments given to arg and args in call order (behind the
\* helper prefix when elevated); elevate, dry and message leave program and
\* arguments alone; run and run_capture leave the builder alone.
C10_ArgumentOrder ==
    [][ /\ (cmd' # Nil) => (cmd'.args = hist'.args /\ cmd'.command = hist'.target)
        /\ (last'.op \in {"Command::run", "Command::run_capture"}) =>
              /\ cmd' = cmd
              /\ \E pre \in ElevationPrefixes \cup {<<>>} :
                    last'.exec.argv = pre \o <<hist.target>> \o hist.args
        /\ (last'.op \in {"Command::elevate", "Command::dry", "Command::message"}) =>
              /\ cmd'.args = cmd.args
              /\ cmd'.command = cmd.command
      ]_vars

C10_Witness ==
    /\ IsRun
    /\ cmd.elevate
    /\ hist.args = <<Str("a"), Str("a")>>
    /\ Len(Argv) >= 4

====
